---- MODULE Spec2Model ----
(***************************************************************************)
(* Verification model of the UK power map data build pipeline:             *)
(*   scripts/extract_data.py        (literal extractor)                    *)
(*   scripts/process_demographics.py (demographics reconciler)             *)
(*                                                                         *)
(* Texts are sequences of lexemes.  A lexeme is one character, except that *)
(* the keyword "var" and the variable names are kept as one lexeme each    *)
(* (they are runs of word characters).  Indices are the 0-based indices    *)
(* of the Python code; At(s, i) reads s[i].                                *)
(***************************************************************************)
EXTENDS Integers, Sequences, FiniteSets, TLC

VARIABLES
    pc,             \* position of the running script
    source,         \* full_script: the text the extractor scans
    span,           \* outcome of js_var_to_json on (VarName, source)
    text,           \* input of js_to_json
    once,           \* js_to_json(text)
    twice,          \* js_to_json(js_to_json(text))
    idx,            \* which statement of the extraction batch runs next
    results,        \* the module-level names bound by the batch
    files,          \* content of the files under DATA_DIR
    raised,         \* the exception that ended the script, if any
    fuzzyArgs,      \* arguments of a call of fuzzy_match
    fuzzyRet,       \* what the call returned
    args,           \* command line of process_demographics.py and the file system
    workbook,       \* the sheet process_excel reads: headers and rows
    mp_info,        \* data/mp-info.json: the roster, in key order
    constituencies, \* main's list of constituency records
    validation,     \* what validate_against_mp_info computed
    output,         \* the document build_output returned
    outfile,        \* data/constituency-demographics.json
    departments,    \* data/departments.json as the relationship check reads it
    report          \* what the relationship check printed

vars == <<pc, source, span, text, once, twice, idx, results, files, raised,
          fuzzyArgs, fuzzyRet, args, workbook, mp_info, constituencies,
          validation, output, outfile, departments, report>>

mainVars == <<args, workbook, mp_info, constituencies, validation, output, outfile>>

fuzzyVars == <<fuzzyArgs, fuzzyRet>>

checkVars == <<departments, report>>

extractVars == <<idx, results, files, raised>>

Idle == "-"

\* ------------------------------------------------------------------------
\* Lexemes
\* ------------------------------------------------------------------------
DQ == "\""
SQ == "'"
BS == "\\"
NL == "\n"
SP == " "
VAR == "var"

\* the characters U+2018, U+2019, U+201C and U+201D
LSQUO == "u2018"
RSQUO == "u2019"
LDQUO == "u201c"
RDQUO == "u201d"

\* the variable names extracted by the batch (extract_data.py:127-133)
TargetNames == {"DEPARTMENTS", "CHANGELOG", "MP_INFO"}

\* \s of the regular expressions
IsSpace(ch) == ch \in {SP, NL}

\* \w of the regular expressions
IsWord(ch) == ch \in ({"a", "1", VAR} \cup TargetNames)

\* ------------------------------------------------------------------------
\* Python sequence primitives
\* ------------------------------------------------------------------------
At(s, i) == s[i + 1]

Min(a, b) == IF a < b THEN a ELSE b

\* s[lo:hi] with Python's clamping of hi
Slice(s, lo, hi) == SubSeq(s, lo + 1, Min(hi, Len(s)))

\* all sequences over S of length n
RECURSIVE SeqsOfLen(_, _)
SeqsOfLen(S, n) ==
    IF n = 0 THEN {<<>>}
    ELSE {Append(t, c) : t \in SeqsOfLen(S, n - 1), c \in S}

\* ------------------------------------------------------------------------
\* js_var_to_json (extract_data.py:31-71)
\* ------------------------------------------------------------------------
\* end of the longest run of \s starting at i
RECURSIVE SkipSpace(_, _)
SkipSpace(s, i) ==
    IF i < Len(s) /\ IsSpace(At(s, i)) THEN SkipSpace(s, i + 1) ELSE i

\* match.end() of  var\s+NAME\s*=\s*  anchored at p, or -1
MatchEndAt(varname, s, p) ==
    IF ~(p < Len(s) /\ At(s, p) = VAR) THEN -1
    ELSE LET q == SkipSpace(s, p + 1) IN
         IF ~(q > p + 1 /\ q < Len(s) /\ At(s, q) = varname) THEN -1
         ELSE LET r == SkipSpace(s, q + 1) IN
              IF ~(r < Len(s) /\ At(s, r) = "=") THEN -1
              ELSE SkipSpace(s, r + 1)

\* re.search: the leftmost anchor that matches
RECURSIVE SearchFrom(_, _, _)
SearchFrom(varname, s, p) ==
    IF p >= Len(s) THEN -1
    ELSE IF MatchEndAt(varname, s, p) # -1 THEN MatchEndAt(varname, s, p)
    ELSE SearchFrom(varname, s, p + 1)

\* SkipString that takes a backslash for an ordinary character
RECURSIVE SkipStringNoEscape(_, _, _)
SkipStringNoEscape(s, quote, i) ==
    IF i < Len(s) /\ At(s, i) # quote
    THEN SkipStringNoEscape(s, quote, i + 1)
    ELSE i

\* the inner while loop: skip string content
RECURSIVE SkipString(_, _, _)
SkipString(s, quote, i) ==
    IF i < Len(s) /\ At(s, i) # quote
    THEN SkipString(s, quote, (IF At(s, i) = BS THEN i + 1 ELSE i) + 1)
    ELSE i

\* the outer while loop; the value is i when the loop is left
RECURSIVE ScanLoop(_, _, _, _, _)
ScanLoop(s, opener, close, i, depth) ==
    IF ~(i < Len(s)) THEN i
    ELSE LET ch == At(s, i) IN
         IF ch = opener THEN ScanLoop(s, opener, close, i + 1, depth + 1)
         ELSE IF ch = close
              THEN IF depth - 1 = 0 THEN i
                   ELSE ScanLoop(s, opener, close, i + 1, depth - 1)
         ELSE IF ch \in {DQ, SQ}
              THEN ScanLoop(s, opener, close, SkipString(s, ch, i + 1) + 1, depth)
         ELSE ScanLoop(s, opener, close, i + 1, depth)

Failure(kind) == [kind |-> kind, start |-> -1, stop |-> -1, raw |-> <<>>]

js_var_to_json(varname, s) ==
    LET start == SearchFrom(varname, s, 0) IN
    IF start = -1 THEN Failure("NotFound")              \* ValueError "Could not find var"
    ELSE IF ~(start < Len(s)) THEN Failure("IndexError") \* source[i] past the end
    ELSE LET opener == At(s, start) IN
         IF opener \notin {"[", "{"} THEN Failure("Malformed")  \* ValueError "Expected [ or {"
         ELSE LET close == IF opener = "[" THEN "]" ELSE "}"
                  i == ScanLoop(s, opener, close, start, 0)
              IN  [kind |-> "span", start |-> start, stop |-> i,
                   raw |-> Slice(s, start, i + 1)]

\* ------------------------------------------------------------------------
\* js_to_json (extract_data.py:74-92)
\* ------------------------------------------------------------------------
\* end of the longest run of \w starting at i
RECURSIVE SkipWord(_, _)
SkipWord(s, i) ==
    IF i < Len(s) /\ IsWord(At(s, i)) THEN SkipWord(s, i + 1) ELSE i

\* (?<=[{,\n])\s*(\w+)\s*:  anchored at p: <<group start, group end, match end>>
\* or <<-1, -1, -1>>.  The three classes are disjoint, so the greedy match
\* is the only one.
KeyMatchAt(s, p) ==
    IF ~(p >= 1 /\ At(s, p - 1) \in {"{", ",", NL}) THEN <<-1, -1, -1>>
    ELSE LET a == SkipSpace(s, p)
             b == SkipWord(s, a)
             c == SkipSpace(s, b)
         IN  IF b > a /\ c < Len(s) /\ At(s, c) = ":" THEN <<a, b, c + 1>>
             ELSE <<-1, -1, -1>>

\* re.sub of line 81 on s[pos:]: every match, left to right, becomes "\1":
RECURSIVE QuoteKeysFrom(_, _)
QuoteKeysFrom(s, pos) ==
    IF pos >= Len(s) THEN <<>>
    ELSE LET m == KeyMatchAt(s, pos) IN
         IF m[3] # -1
         THEN <<DQ>> \o Slice(s, m[1], m[2]) \o <<DQ, ":">> \o QuoteKeysFrom(s, m[3])
         ELSE <<At(s, pos)>> \o QuoteKeysFrom(s, pos + 1)

\* ,\s*([}\]])  anchored at p: index of the closing bracket, or -1
CommaMatchAt(s, p) ==
    IF At(s, p) # "," THEN -1
    ELSE LET a == SkipSpace(s, p + 1)
         IN  IF a < Len(s) /\ At(s, a) \in {"}", "]"} THEN a ELSE -1

\* StripTrailingCommasFrom that rewrites the first match only
StripFirstTrailingComma(s, pos) ==
    LET hits == {p \in pos..(Len(s) - 1) : CommaMatchAt(s, p) # -1} IN
    IF hits = {} THEN Slice(s, pos, Len(s))
    ELSE LET p == CHOOSE x \in hits : \A y \in hits : x <= y
         IN  Slice(s, pos, p) \o Slice(s, CommaMatchAt(s, p), Len(s))

\* re.sub of line 84 on s[pos:]: every match, left to right, becomes \1
RECURSIVE StripTrailingCommasFrom(_, _)
StripTrailingCommasFrom(s, pos) ==
    IF pos >= Len(s) THEN <<>>
    ELSE LET m == CommaMatchAt(s, pos) IN
         IF m # -1
         THEN <<At(s, m)>> \o StripTrailingCommasFrom(s, m + 1)
         ELSE <<At(s, pos)>> \o StripTrailingCommasFrom(s, pos + 1)

js_to_json(raw) == StripTrailingCommasFrom(QuoteKeysFrom(raw, 0), 0)

\* ------------------------------------------------------------------------
\* json.loads (extract_data.py:101), strict mode, on the lexemes of the model:
\* strings, numbers made of the digit "1", arrays and objects.
\* A document is <<"list", items>>, <<"dict", pairs>>, <<"str", chars>> or
\* <<"num", digits>>.  A parse is [ok, pos, val]; pos is where it stopped.
\* ------------------------------------------------------------------------
NoParse == [ok |-> FALSE, pos |-> -1, val |-> <<>>]

Parsed(pos, val) == [ok |-> TRUE, pos |-> pos, val |-> val]

\* dict[key] = val: a key already present keeps its place
DictSet(pairs, key, val) ==
    IF \E n \in 1..Len(pairs) : pairs[n][1] = key
    THEN [n \in 1..Len(pairs) |-> IF pairs[n][1] = key THEN <<key, val>> ELSE pairs[n]]
    ELSE Append(pairs, <<key, val>>)

\* the characters of a string whose opening quote precedes i
RECURSIVE ParseString(_, _, _)
ParseString(s, i, acc) ==
    IF i >= Len(s) THEN NoParse                             \* unterminated
    ELSE LET ch == At(s, i) IN
         IF ch = DQ THEN Parsed(i + 1, <<"str", acc>>)
         ELSE IF ch = BS
              THEN IF i + 1 < Len(s) /\ At(s, i + 1) \in {DQ, BS}
                   THEN ParseString(s, i + 2, Append(acc, At(s, i + 1)))
                   ELSE NoParse                             \* invalid escape
         ELSE IF ch = NL THEN NoParse                       \* control character
         ELSE ParseString(s, i + 1, Append(acc, ch))

RECURSIVE SkipDigits(_, _)
SkipDigits(s, i) ==
    IF i < Len(s) /\ At(s, i) = "1" THEN SkipDigits(s, i + 1) ELSE i

RECURSIVE ParseValue(_, _)
RECURSIVE ParseItems(_, _, _)
RECURSIVE ParseMembers(_, _, _)

\* the value that starts at i
ParseValue(s, i) ==
    IF i >= Len(s) THEN NoParse
    ELSE LET ch == At(s, i) IN
         IF ch = DQ THEN ParseString(s, i + 1, <<>>)
         ELSE IF ch = "1" THEN Parsed(SkipDigits(s, i), <<"num", Slice(s, i, SkipDigits(s, i))>>)
         ELSE IF ch = "["
              THEN LET j == SkipSpace(s, i + 1) IN
                   IF j < Len(s) /\ At(s, j) = "]" THEN Parsed(j + 1, <<"list", <<>>>>)
                   ELSE ParseItems(s, j, <<>>)
         ELSE IF ch = "{"
              THEN LET j == SkipSpace(s, i + 1) IN
                   IF j < Len(s) /\ At(s, j) = "}" THEN Parsed(j + 1, <<"dict", <<>>>>)
                   ELSE ParseMembers(s, j, <<>>)
         ELSE NoParse

\* the items of an array, the next one starting at i
ParseItems(s, i, acc) ==
    LET v == ParseValue(s, i) IN
    IF ~v.ok THEN NoParse
    ELSE LET j == SkipSpace(s, v.pos) IN
         IF j >= Len(s) THEN NoParse
         ELSE IF At(s, j) = "]" THEN Parsed(j + 1, <<"list", Append(acc, v.val)>>)
         ELSE IF At(s, j) = "," THEN ParseItems(s, SkipSpace(s, j + 1), Append(acc, v.val))
         ELSE NoParse

\* the members of an object, the next key starting at i
ParseMembers(s, i, acc) ==
    IF ~(i < Len(s) /\ At(s, i) = DQ) THEN NoParse
    ELSE LET key == ParseString(s, i + 1, <<>>) IN
         IF ~key.ok THEN NoParse
         ELSE LET c == SkipSpace(s, key.pos) IN
              IF ~(c < Len(s) /\ At(s, c) = ":") THEN NoParse
              ELSE LET v == ParseValue(s, SkipSpace(s, c + 1)) IN
                   IF ~v.ok THEN NoParse
                   ELSE LET j == SkipSpace(s, v.pos)
                            acc2 == DictSet(acc, key.val[2], v.val)
                        IN  IF j >= Len(s) THEN NoParse
                            ELSE IF At(s, j) = "}" THEN Parsed(j + 1, <<"dict", acc2>>)
                            ELSE IF At(s, j) = ","
                                 THEN ParseMembers(s, SkipSpace(s, j + 1), acc2)
                            ELSE NoParse

\* json.loads: one value, spaces around it, nothing else
json_loads(s) ==
    LET v == ParseValue(s, SkipSpace(s, 0)) IN
    IF v.ok /\ SkipSpace(s, v.pos) = Len(s) THEN v ELSE NoParse

\* ------------------------------------------------------------------------
\* extract_and_save (extract_data.py:95-121) and the batch (127-133)
\* ------------------------------------------------------------------------
\* three of the seven statements of the batch, in their order
Targets ==
    << [varname |-> "DEPARTMENTS", filename |-> "departments.json"],
       [varname |-> "CHANGELOG",   filename |-> "changelog.json"],
       [varname |-> "MP_INFO",     filename |-> "mp-info.json"] >>

NumTargets == Len(Targets)

DebugName(filename) == "_debug_" \o filename

Paths == {Targets[n].filename : n \in 1..NumTargets}
         \cup {DebugName(Targets[n].filename) : n \in 1..NumTargets}

Absent == [kind |-> "absent", body |-> <<>>]

Unbound == <<"unbound">>

None == <<"None">>

Outcome(fs, ret, exc) == [files |-> fs, ret |-> ret, raised |-> exc]

\* extract_and_save without the try/except around json.loads
extract_and_save_uncaught(varname, filename, src, fs) ==
    LET raw == js_var_to_json(varname, src) IN
    IF raw.kind # "span" THEN Outcome(fs, Unbound, raw.kind)
    ELSE LET json_str == js_to_json(raw.raw)
             data == json_loads(json_str)
         IN  IF ~data.ok THEN Outcome(fs, Unbound, "JSONDecodeError")
             ELSE Outcome([fs EXCEPT ![filename] = [kind |-> "json", body |-> data.val]],
                          data.val, "")

\* one call: the files afterwards, the value returned, the exception raised
extract_and_save(varname, filename, src, fs) ==
    LET raw == js_var_to_json(varname, src) IN
    IF raw.kind # "span" THEN Outcome(fs, Unbound, raw.kind)    \* not caught
    ELSE LET json_str == js_to_json(raw.raw)
             data == json_loads(json_str)
         IN  IF ~data.ok
             THEN Outcome([fs EXCEPT ![DebugName(filename)] =
                               [kind |-> "text", body |-> json_str]],
                          None, "")
             ELSE Outcome([fs EXCEPT ![filename] = [kind |-> "json", body |-> data.val]],
                          data.val, "")

\* ------------------------------------------------------------------------
\* fuzzy_match (process_demographics.py:30-44).  Names are sequences of
\* characters; a score is the fraction <<2 * M, T>> that SequenceMatcher.ratio
\* divides out (M matched characters, T the two lengths together).
\* ------------------------------------------------------------------------
UpperCase == <<"A", "B", "C", "D", "E", "F", "G", "H", "I", "J", "K", "L", "M",
               "N", "O", "P", "Q", "R", "S", "T", "U", "V", "W", "X", "Y", "Z">>

LowerCase == <<"a", "b", "c", "d", "e", "f", "g", "h", "i", "j", "k", "l", "m",
               "n", "o", "p", "q", "r", "s", "t", "u", "v", "w", "x", "y", "z">>

\* str.lower, one character
Lower(ch) ==
    IF \E n \in 1..26 : UpperCase[n] = ch
    THEN LowerCase[CHOOSE n \in 1..26 : UpperCase[n] = ch]
    ELSE ch

\* .lower().replace("&", "and").replace(",", "") of s[i:]
RECURSIVE Fold(_, _)
Fold(s, i) ==
    IF i >= Len(s) THEN <<>>
    ELSE LET ch == At(s, i) IN
         (IF ch = "&" THEN <<"a", "n", "d">>
          ELSE IF ch = "," THEN <<>>
          ELSE <<Lower(ch)>>) \o Fold(s, i + 1)

\* str.strip
RECURSIVE Strip(_)
Strip(s) ==
    IF s = <<>> THEN s
    ELSE IF IsSpace(s[1]) THEN Strip(Tail(s))
    ELSE IF IsSpace(s[Len(s)]) THEN Strip(SubSeq(s, 1, Len(s) - 1))
    ELSE s

Normalise(s) == Strip(Fold(s, 0))

\* length of the common run of a[i:ahi] and b[j:bhi]
RECURSIVE CommonRun(_, _, _, _, _, _)
CommonRun(a, i, ahi, b, j, bhi) ==
    IF i < ahi /\ j < bhi /\ At(a, i) = At(b, j)
    THEN 1 + CommonRun(a, i + 1, ahi, b, j + 1, bhi)
    ELSE 0

\* SequenceMatcher.find_longest_match: the longest common block of
\* a[alo:ahi] and b[blo:bhi], the earliest in a, then the earliest in b
LongestMatch(a, alo, ahi, b, blo, bhi) ==
    LET runs == {<<i, j, CommonRun(a, i, ahi, b, j, bhi)>> : i \in alo..(ahi - 1), j \in blo..(bhi - 1)}
        best == CHOOSE r \in runs : \A r2 \in runs :
                    \/ r[3] > r2[3]
                    \/ r[3] = r2[3] /\ r[1] < r2[1]
                    \/ r[3] = r2[3] /\ r[1] = r2[1] /\ r[2] <= r2[2]
    IN  IF runs = {} THEN <<alo, blo, 0>> ELSE best

\* SequenceMatcher.get_matching_blocks: matched characters in all blocks
RECURSIVE Matches(_, _, _, _, _, _)
Matches(a, alo, ahi, b, blo, bhi) ==
    LET m == LongestMatch(a, alo, ahi, b, blo, bhi) IN
    IF m[3] = 0 THEN 0
    ELSE Matches(a, alo, m[1], b, blo, m[2]) + m[3]
         + Matches(a, m[1] + m[3], ahi, b, m[2] + m[3], bhi)

\* SequenceMatcher(None, a, b).ratio()
Ratio(a, b) ==
    IF Len(a) + Len(b) = 0 THEN <<1, 1>>
    ELSE <<2 * Matches(a, 0, Len(a), b, 0, Len(b)), Len(a) + Len(b)>>

\* x > y and x >= y on fractions with positive denominators
Greater(x, y) == x[1] * y[2] > y[1] * x[2]

AtLeast(x, y) == x[1] * y[2] >= y[1] * x[2]

SameScore(x, y) == x[1] * y[2] = y[1] * x[2]

\* the for loop of lines 36-41 from the n-th candidate on
RECURSIVE FuzzyLoop(_, _, _, _, _)
FuzzyLoop(name_norm, candidates, n, best_score, best_match) ==
    IF n > Len(candidates) THEN [match |-> best_match, score |-> best_score]
    ELSE LET score == Ratio(name_norm, Normalise(candidates[n])) IN
         IF Greater(score, best_score)
         THEN FuzzyLoop(name_norm, candidates, n + 1, score, candidates[n])
         ELSE FuzzyLoop(name_norm, candidates, n + 1, best_score, best_match)

fuzzy_match(name, candidates, threshold) ==
    LET r == FuzzyLoop(Normalise(name), candidates, 1, <<0, 1>>, None) IN
    IF AtLeast(r.score, threshold) THEN r
    ELSE [match |-> None, score |-> r.score]

\* ------------------------------------------------------------------------
\* Values of the demographics script.  A value is a tuple: None, Missing (a
\* key a dict does not hold), Num(n), Str(chars).  Percentages are counted
\* in tenths once rounded; a numeric cell holds hundredths.
\* ------------------------------------------------------------------------
Missing == <<"missing">>

Num(n) == <<"num", n>>

Str(chars) == <<"str", chars>>

\* a cell that is a string float() rejects
Text == Str(<<"n", "/", "a">>)

\* dict.get(key): None for a key that is not there
Get(d, key) == IF d[key] = Missing THEN None ELSE d[key]

\* truth value of a cell or field
Truthy(v) == v \notin {None, Missing, Str(<<>>), Num(0)}

PctFields == <<"white_pct", "asian_pct", "black_pct", "mixed_pct", "other_pct">>

MinorityFields == <<"asian_pct", "black_pct", "mixed_pct", "other_pct">>

Wigan == <<"W", "i", "g", "a", "n">>
Wigam == <<"W", "i", "g", "a", "m">>
WiganComma == <<"w", "i", "g", "a", "n", ",">>
Selby == <<"S", "e", "l", "b", "y">>
ElysAscii == <<"E", "l", "y", SQ, "s">>
ElysSmart == <<"E", "l", "y", RSQUO, "s">>
AAndB == <<SP, "a", SP, "a", "n", "d", SP, "b">>
AAmpB == <<"A", "&", "B">>
Wycombe == <<"W", "y", "c", "o", "m", "b", "e">>

\* ------------------------------------------------------------------------
\* process_excel (process_demographics.py:47-152).  A header is the set of
\* the keywords of lines 93-105 that occur in it.
\* ------------------------------------------------------------------------
\* the if/elif chain of lines 93-106: the key of col_map a header sets
HeaderField(h) ==
    IF h \cap {"constituency", "pcon24nm", "pcon name"} # {} THEN "name"
    ELSE IF h \cap {"pcon24cd", "gss", "code"} # {} THEN "gss_code"
    ELSE IF {"white", "%"} \subseteq h THEN "white_pct"
    ELSE IF {"asian", "%"} \subseteq h THEN "asian_pct"
    ELSE IF {"black", "%"} \subseteq h THEN "black_pct"
    ELSE IF {"mixed", "%"} \subseteq h THEN "mixed_pct"
    ELSE IF {"other", "%"} \subseteq h /\ "ethnic" \notin h THEN "other_pct"
    ELSE ""

\* col_map[field], or -1: the last header that sets the key wins
ColOf(headers, field) ==
    LET hits == {i \in 0..(Len(headers) - 1) : HeaderField(At(headers, i)) = field}
    IN  IF hits = {} THEN -1 ELSE CHOOSE i \in hits : \A j \in hits : j <= i

\* round(float(val), 1) of a number of hundredths, in tenths
RoundToTenths(h) == (h + 5) \div 10

\* lines 130-139: the value of one percentage field of a row
PctOfRow(headers, row, field) ==
    IF ColOf(headers, field) = -1 THEN None
    ELSE LET val == At(row, ColOf(headers, field)) IN
         IF val = None THEN Missing
         ELSE IF val[1] = "num" THEN Num(RoundToTenths(val[2]))
         ELSE None

\* DeriveNonwhite that only knows the white percentage
DeriveFromWhiteOnly(entry) ==
    IF Get(entry, "white_pct") # None
    THEN Num(1000 - entry["white_pct"][2])
    ELSE Missing

\* lines 141-147: the non-white percentage of an entry
DeriveNonwhite(entry) ==
    IF Get(entry, "white_pct") # None
    THEN Num(1000 - entry["white_pct"][2])
    ELSE IF \A n \in 1..4 : Get(entry, MinorityFields[n]) # None
         THEN Num(entry["asian_pct"][2] + entry["black_pct"][2]
                  + entry["mixed_pct"][2] + entry["other_pct"][2])
         ELSE Missing

\* lines 123-147: the entry of one row
EntryOfRow(headers, row) ==
    LET gss == IF ColOf(headers, "gss_code") = -1 THEN None
               ELSE At(row, ColOf(headers, "gss_code"))
        base == [constituency_name |-> Str(Strip(At(row, ColOf(headers, "name"))[2])),
                 gss_code |-> IF Truthy(gss) THEN Str(Strip(gss[2])) ELSE Missing,
                 white_pct |-> PctOfRow(headers, row, "white_pct"),
                 asian_pct |-> PctOfRow(headers, row, "asian_pct"),
                 black_pct |-> PctOfRow(headers, row, "black_pct"),
                 mixed_pct |-> PctOfRow(headers, row, "mixed_pct"),
                 other_pct |-> PctOfRow(headers, row, "other_pct"),
                 nonwhite_pct |-> Missing]
    IN  [base EXCEPT !.nonwhite_pct = DeriveNonwhite(base)]

\* lines 119-121: the row has a name
HasName(headers, row) ==
    LET name == At(row, ColOf(headers, "name")) IN
    Truthy(name) /\ Strip(name[2]) # <<>>

\* the loop of lines 118-149 over rows[n..]
RECURSIVE ReadRows(_, _, _)
ReadRows(headers, rows, n) ==
    IF n > Len(rows) THEN <<>>
    ELSE (IF HasName(headers, rows[n]) THEN <<EntryOfRow(headers, rows[n])>> ELSE <<>>)
         \o ReadRows(headers, rows, n + 1)

\* a list of records, and the None that takes its place
PyList(items) == [kind |-> "list", items |-> items]

NoneList == [kind |-> "None", items |-> <<>>]

process_excel(wb) ==
    IF ColOf(wb.headers, "name") = -1 THEN NoneList
    ELSE PyList(ReadRows(wb.headers, wb.rows, 1))

\* ------------------------------------------------------------------------
\* load_manual_data (process_demographics.py:155-275)
\* ------------------------------------------------------------------------
\* three of the 83 tuples of lines 171-261 (lines 205, 217, 252), in tenths
ManualData ==
    << <<Wycombe, 600, 250, 50, 50, 50>>,
       <<Wigan, 930, 25, 10, 20, 15>>,
       <<Selby, 955, 20, 5, 15, 5>> >>

load_manual_data ==
    PyList(
    [n \in 1..Len(ManualData) |->
        [constituency_name |-> Str(ManualData[n][1]),
         gss_code |-> Missing,
         white_pct |-> Num(ManualData[n][2]),
         asian_pct |-> Num(ManualData[n][3]),
         black_pct |-> Num(ManualData[n][4]),
         mixed_pct |-> Num(ManualData[n][5]),
         other_pct |-> Num(ManualData[n][6]),
         nonwhite_pct |-> Num(1000 - ManualData[n][2])]])

\* ------------------------------------------------------------------------
\* validate_against_mp_info (process_demographics.py:278-318)
\* ------------------------------------------------------------------------
\* the sequences that list every element of S once: the orders in which a
\* set can be iterated
Orders(S) ==
    {q \in SeqsOfLen(S, Cardinality(S)) : \A x \in S : \E n \in 1..Len(q) : q[n] = x}

\* lines 283-286
MpConstituencies(roster) ==
    {roster[n].con[2] : n \in {m \in 1..Len(roster) : Truthy(roster[m].con)}}

\* lines 288-318, the candidates being iterated in the given order
validate_against_mp_info(cons, roster, order) ==
    LET mp_constituencies == MpConstituencies(roster)
        demo_names == {cons[n].constituency_name[2] : n \in 1..Len(cons)}
        unmatched == mp_constituencies \ demo_names
        found == {u \in unmatched : fuzzy_match(u, order, <<4, 5>>).match \notin {None, <<>>}}
    IN  [matched |-> mp_constituencies \cap demo_names,
         fuzzy_matches |-> [u \in found |-> fuzzy_match(u, order, <<4, 5>>)],
         still_missing |-> unmatched \ found]

\* ------------------------------------------------------------------------
\* build_output (process_demographics.py:321-392)
\* ------------------------------------------------------------------------
\* lines 328-329, one character
NormaliseQuote(ch) ==
    IF ch \in {RSQUO, LSQUO} THEN SQ
    ELSE IF ch \in {LDQUO, RDQUO} THEN DQ
    ELSE ch

normalize_name(s) == [n \in 1..Len(s) |-> NormaliseQuote(s[n])]

\* dict[key], the key being there
DictGet(pairs, key) ==
    pairs[CHOOSE n \in 1..Len(pairs) : pairs[n][1] = key][2]

HasKey(pairs, key) == \E n \in 1..Len(pairs) : pairs[n][1] = key

\* ConToMinisters that keeps one name for each constituency
RECURSIVE ConToMinistersLastOnly(_, _, _)
ConToMinistersLastOnly(roster, n, acc) ==
    IF n > Len(roster) THEN acc
    ELSE IF ~Truthy(roster[n].con) THEN ConToMinistersLastOnly(roster, n + 1, acc)
    ELSE ConToMinistersLastOnly(roster, n + 1,
             DictSet(acc, normalize_name(roster[n].con[2]), <<roster[n].name>>))

\* lines 333-340 over roster[n..]: con_to_ministers
RECURSIVE ConToMinisters(_, _, _)
ConToMinisters(roster, n, acc) ==
    IF n > Len(roster) THEN acc
    ELSE IF ~Truthy(roster[n].con) THEN ConToMinisters(roster, n + 1, acc)
    ELSE LET norm == normalize_name(roster[n].con[2])
             sofar == IF HasKey(acc, norm) THEN DictGet(acc, norm) ELSE <<>>
         IN  ConToMinisters(roster, n + 1, DictSet(acc, norm, Append(sofar, roster[n].name)))

\* OutputEntry that falls back on the closest roster constituency
OutputEntryFuzzy(c, con_to_ministers) ==
    LET name == c.constituency_name[2]
        close == {n \in 1..Len(con_to_ministers) :
                     fuzzy_match(name, <<con_to_ministers[n][1]>>, <<4, 5>>).match # None}
    IN  [white_pct |-> Get(c, "white_pct"),
         asian_pct |-> Get(c, "asian_pct"),
         black_pct |-> Get(c, "black_pct"),
         mixed_pct |-> Get(c, "mixed_pct"),
         other_pct |-> Get(c, "other_pct"),
         nonwhite_pct |-> Get(c, "nonwhite_pct"),
         gss_code |-> IF Truthy(c.gss_code) THEN c.gss_code ELSE Missing,
         ministers |-> IF HasKey(con_to_ministers, normalize_name(name))
                       THEN DictGet(con_to_ministers, normalize_name(name))
                       ELSE IF close # {}
                            THEN con_to_ministers[CHOOSE n \in close : TRUE][2]
                            ELSE Missing]

\* lines 376-388: the output entry of one record
OutputEntry(c, con_to_ministers) ==
    [white_pct |-> Get(c, "white_pct"),
     asian_pct |-> Get(c, "asian_pct"),
     black_pct |-> Get(c, "black_pct"),
     mixed_pct |-> Get(c, "mixed_pct"),
     other_pct |-> Get(c, "other_pct"),
     nonwhite_pct |-> Get(c, "nonwhite_pct"),
     gss_code |-> IF Truthy(c.gss_code) THEN c.gss_code ELSE Missing,
     ministers |-> IF HasKey(con_to_ministers, normalize_name(c.constituency_name[2]))
                   THEN DictGet(con_to_ministers, normalize_name(c.constituency_name[2]))
                   ELSE Missing]

\* FillConstituencies that leaves a name already present alone
RECURSIVE FillConstituenciesFirstWins(_, _, _, _)
FillConstituenciesFirstWins(cons, n, con_to_ministers, acc) ==
    IF n > Len(cons) THEN acc
    ELSE FillConstituenciesFirstWins(cons, n + 1, con_to_ministers,
             IF HasKey(acc, cons[n].constituency_name[2]) THEN acc
             ELSE Append(acc, <<cons[n].constituency_name[2],
                                OutputEntry(cons[n], con_to_ministers)>>))

\* the loop of lines 374-390 over cons[n..]
RECURSIVE FillConstituencies(_, _, _, _)
FillConstituencies(cons, n, con_to_ministers, acc) ==
    IF n > Len(cons) THEN acc
    ELSE FillConstituencies(cons, n + 1, con_to_ministers,
             DictSet(acc, cons[n].constituency_name[2],
                     OutputEntry(cons[n], con_to_ministers)))

\* lines 362-370, in tenths
UkAverage ==
    [white_pct |-> Num(817), asian_pct |-> Num(93), black_pct |-> Num(40),
     mixed_pct |-> Num(29), other_pct |-> Num(21), nonwhite_pct |-> Num(183)]

build_output(cons, roster) ==
    [metadata |-> [last_updated |-> "2026-02-10", coverage |-> Len(cons)],
     uk_average |-> UkAverage,
     constituencies |-> FillConstituencies(cons, 1, ConToMinisters(roster, 1, <<>>), <<>>)]

\* ------------------------------------------------------------------------
\* Specification of one call of js_var_to_json
\* ------------------------------------------------------------------------
MaxBody == 6
MaxTail == 1

VarName == "DEPARTMENTS"

\* the lexemes of a body opened by o: its own brackets, the closer of the
\* other kind, both quotes, the backslash and a letter
ScanAlphabet(o) == {o, "]", "}", DQ, SQ, BS, "a"}

\* prefixes that end in an assignment of VarName
AssigningPrefixes ==
    { <<"a", VAR, NL, SP, VarName, "=", SP>> }

\* what may precede the text under the scanner
Prefixes ==
    AssigningPrefixes \cup
    { <<VAR, SP, VarName, SP, "=">>,
      <<VAR, VarName, "=">>,
      <<VAR, SP, "CHANGELOG", "=">>,
      <<VarName, "=">>,
      <<>> }

Openers == {"[", "{"}

TailAlphabet == {"[", "{", "]", "}", DQ, SQ, BS, "a", "1", "=", SP}

\* an assignment followed by a bracketed body of at most MaxBody lexemes, or
\* any prefix followed by a short continuation that need not open a bracket
LocateInit ==
    /\ pc = "locate"
    /\ \/ \E p \in AssigningPrefixes, o \in Openers, n \in 0..(MaxBody - 1) :
             \E b \in SeqsOfLen(ScanAlphabet(o), n) : source = p \o <<o>> \o b
       \/ \E p \in Prefixes, n \in 0..MaxTail :
             \E b \in SeqsOfLen(TailAlphabet, n) : source = p \o b
    /\ span = Idle
    /\ text = Idle /\ once = Idle /\ twice = Idle
    /\ idx = Idle /\ results = Idle /\ files = Idle /\ raised = Idle
    /\ fuzzyArgs = Idle /\ fuzzyRet = Idle
    /\ args = Idle /\ workbook = Idle /\ mp_info = Idle /\ constituencies = Idle
    /\ validation = Idle /\ output = Idle /\ outfile = Idle
    /\ departments = Idle /\ report = Idle

Locate ==
    /\ pc = "locate"
    /\ span' = js_var_to_json(VarName, source)
    /\ pc' = "located"
    /\ UNCHANGED <<source, text, once, twice>>
    /\ UNCHANGED <<extractVars, fuzzyVars, mainVars, checkVars>>

LocateNext == Locate

SpecLocate == LocateInit /\ [][LocateNext]_vars

\* ------------------------------------------------------------------------
\* Reference notions for the claims about js_var_to_json
\* ------------------------------------------------------------------------
AllSpace(s, lo, hi) == \A x \in lo..(hi - 1) : IsSpace(At(s, x))

\* s[p..e-1] reads  var <spaces> NAME <spaces?> = <spaces?>  and the
\* spaces after "=" are all taken
IsAssignment(varname, s, p, e) ==
    /\ At(s, p) = VAR
    /\ (e < Len(s) => ~IsSpace(At(s, e)))
    /\ \E q \in (p + 2)..(e - 2) :
          /\ At(s, q) = varname
          /\ AllSpace(s, p + 1, q)
          /\ \E r \in (q + 1)..(e - 1) :
                /\ At(s, r) = "="
                /\ AllSpace(s, q + 1, r)
                /\ AllSpace(s, r + 1, e)

AssignmentStarts(varname, s) ==
    {p \in 0..(Len(s) - 1) : \E e \in (p + 1)..Len(s) : IsAssignment(varname, s, p, e)}

HasAssignment(varname, s) == AssignmentStarts(varname, s) # {}

\* index of the lexeme that follows the first assignment of varname
\* (Len(s) when the source ends there)
AfterAssignment(varname, s) ==
    LET starts == AssignmentStarts(varname, s)
        p == CHOOSE x \in starts : \A y \in starts : x <= y
    IN  CHOOSE e \in (p + 1)..Len(s) : IsAssignment(varname, s, p, e)

CloserOf(o) == IF o = "[" THEN "]" ELSE "}"

\* lexical state of a literal opened at `start`, before index j is read:
\* q is the quote of the string being read ("" outside strings), esc holds
\* after a backslash inside a string, depth counts open brackets
RECURSIVE LexState(_, _, _)
LexState(s, start, j) ==
    IF j = start THEN [q |-> "", esc |-> FALSE, depth |-> 0]
    ELSE LET st == LexState(s, start, j - 1)
             ch == At(s, j - 1)
             o  == At(s, start)
         IN  IF st.q # ""
             THEN IF st.esc THEN [st EXCEPT !.esc = FALSE]
                  ELSE IF ch = BS THEN [st EXCEPT !.esc = TRUE]
                  ELSE IF ch = st.q THEN [st EXCEPT !.q = ""]
                  ELSE st
             ELSE IF ch = o THEN [st EXCEPT !.depth = @ + 1]
                  ELSE IF ch = CloserOf(o) THEN [st EXCEPT !.depth = @ - 1]
                  ELSE IF ch \in {DQ, SQ} THEN [st EXCEPT !.q = ch]
                  ELSE st

\* j holds a closer, outside every string, that brings the depth to zero
ClosesAt(s, start, j) ==
    /\ At(s, j) = CloserOf(At(s, start))
    /\ LexState(s, start, j).q = ""
    /\ LexState(s, start, j).depth = 1

Closers(s, start) == {j \in start..(Len(s) - 1) : ClosesAt(s, start, j)}

TrueClose(s, start) ==
    CHOOSE j \in Closers(s, start) : \A j2 \in Closers(s, start) : j <= j2

\* a well-formed literal opens at index start
WellFormedAt(s, start) ==
    /\ start < Len(s)
    /\ At(s, start) \in {"[", "{"}
    /\ Closers(s, start) # {}

\* the first assignment of varname is followed by a well-formed literal
WellFormedLiteral(varname, s) ==
    /\ HasAssignment(varname, s)
    /\ WellFormedAt(s, AfterAssignment(varname, s))

\* C2: for a source whose assignment of the name is followed by a
\* well-formed literal, the span starts at the opener and ends, inclusive,
\* at the first closer that returns the depth to zero, brackets inside
\* quoted strings (backslash escaping the next character) not counting.
BracketDepthInvariant ==
    (pc = "located" /\ HasAssignment(VarName, source)) =>
        LET start == AfterAssignment(VarName, source) IN
        WellFormedAt(source, start) =>
            LET stop == TrueClose(source, start) IN
            /\ span.kind = "span"
            /\ span.start = start
            /\ span.stop = stop
            /\ span.raw = SubSeq(source, start + 1, stop + 1)

\* a well-formed literal was located that holds its own closer inside a
\* string and is followed by more text
BracketInStringLocated ==
    /\ pc = "located"
    /\ span.kind = "span"
    /\ span.stop + 1 < Len(source)
    /\ WellFormedLiteral(VarName, source)
    /\ \E j \in (span.start + 1)..(span.stop - 1) :
          /\ At(source, j) = CloserOf(At(source, span.start))
          /\ LexState(source, span.start, j).q # ""

\* C5: NotFoundError exactly when the source holds no assignment of the
\* name; MalformedLiteralError whenever the first assignment is followed by
\* something other than "[" or "{", or by nothing at all.
LocateErrorOutcomes ==
    pc = "located" =>
        /\ (span.kind = "NotFound") <=> ~HasAssignment(VarName, source)
        /\ HasAssignment(VarName, source) =>
               LET e == AfterAssignment(VarName, source) IN
               (e = Len(source) \/ At(source, e) \notin {"[", "{"})
                   => span.kind = "Malformed"

\* ------------------------------------------------------------------------
\* Specification of js_to_json applied once and then again
\* ------------------------------------------------------------------------
MaxText == 5

RepairAlphabet == {"{", "]", ",", ":", SP, NL, "a", DQ}

RepairInit ==
    /\ pc = "repair"
    /\ \E n \in 0..MaxText : text \in SeqsOfLen(RepairAlphabet, n)
    /\ once = Idle /\ twice = Idle
    /\ source = Idle /\ span = Idle
    /\ idx = Idle /\ results = Idle /\ files = Idle /\ raised = Idle
    /\ fuzzyArgs = Idle /\ fuzzyRet = Idle
    /\ args = Idle /\ workbook = Idle /\ mp_info = Idle /\ constituencies = Idle
    /\ validation = Idle /\ output = Idle /\ outfile = Idle
    /\ departments = Idle /\ report = Idle

RepairOnce ==
    /\ pc = "repair"
    /\ once' = js_to_json(text)
    /\ pc' = "repaired"
    /\ UNCHANGED <<text, twice, source, span>>
    /\ UNCHANGED <<extractVars, fuzzyVars, mainVars, checkVars>>

RepairTwice ==
    /\ pc = "repaired"
    /\ twice' = js_to_json(once)
    /\ pc' = "rerepaired"
    /\ UNCHANGED <<text, once, source, span>>
    /\ UNCHANGED <<extractVars, fuzzyVars, mainVars, checkVars>>

RepairNext == RepairOnce \/ RepairTwice

SpecRepair == RepairInit /\ [][RepairNext]_vars

\* a comma, then (spaces apart) another comma, then (spaces apart) a
\* closing bracket
DoubledTrailingComma(t) ==
    \E i \in 0..(Len(t) - 3) :
        /\ At(t, i) = ","
        /\ \E j \in (i + 1)..(Len(t) - 2) :
              /\ At(t, j) = ","
              /\ AllSpace(t, i + 1, j)
              /\ \E k \in (j + 1)..(Len(t) - 1) :
                    /\ At(t, k) \in {"}", "]"}
                    /\ AllSpace(t, j + 1, k)

\* C3 as stated: repairing any text twice gives what repairing it once gives
RepairIdempotentAll ==
    pc = "rerepaired" => twice = once

\* C3 amended: repairing twice gives what repairing once gives for every
\* text without a doubled trailing comma
RepairIdempotent ==
    (pc = "rerepaired" /\ ~DoubledTrailingComma(text)) => twice = once

\* a bare key and a trailing comma were both rewritten, and repaired again
RepairedTwice ==
    /\ pc = "rerepaired"
    /\ ~DoubledTrailingComma(text)
    /\ \E p \in 0..(Len(text) - 1) : KeyMatchAt(text, p)[3] # -1
    /\ \E p \in 0..(Len(text) - 1) : CommaMatchAt(text, p) # -1
    /\ once # text
    /\ Len(once) = Len(text) + 1

\* ------------------------------------------------------------------------
\* Specification of the extraction batch
\* ------------------------------------------------------------------------
\* what the source may hold for one variable name
Snippets(v) ==
    { <<>>,
      <<VAR, SP, v, SP, "=", SP, "[", "1", ",", NL, "]", ";", NL>>,
      <<VAR, SP, v, "=", "{", "a", ":", DQ, "}", DQ, ",", "}", ";", NL>>,
      <<VAR, SP, v, SP, "=", SP, "[", "a", "]", ";", NL>>,
      <<VAR, SP, v, SP, "=", SP, "1", ";", NL>>,
      <<VAR, SP, v, SP, "=", SP>>,
      <<VAR, SP, v, SP, "=", SP, "[", DQ, "a", ";", NL>> }

\* a file left by an earlier run
Stale == [kind |-> "json", body |-> <<"list", <<>>>>]

ExtractInit ==
    /\ pc = "extract"
    /\ idx = 1
    /\ \E a \in Snippets(Targets[1].varname), b \in Snippets(Targets[2].varname),
          c \in Snippets(Targets[3].varname) : source = a \o b \o c
    /\ results = [n \in 1..NumTargets |-> Unbound]
    /\ files \in {[p \in Paths |-> Absent], [p \in Paths |-> Stale]}
    /\ raised = ""
    /\ span = Idle /\ text = Idle /\ once = Idle /\ twice = Idle
    /\ fuzzyArgs = Idle /\ fuzzyRet = Idle
    /\ args = Idle /\ workbook = Idle /\ mp_info = Idle /\ constituencies = Idle
    /\ validation = Idle /\ output = Idle /\ outfile = Idle
    /\ departments = Idle /\ report = Idle

\* the next statement of the batch
ExtractAndSave ==
    /\ pc = "extract"
    /\ LET t == Targets[idx]
           out == extract_and_save(t.varname, t.filename, source, files)
       IN  IF out.raised # ""
           THEN /\ raised' = out.raised
                /\ pc' = "crashed"
                /\ UNCHANGED <<idx, results, files>>
           ELSE /\ files' = out.files
                /\ results' = [results EXCEPT ![idx] = out.ret]
                /\ idx' = idx + 1
                /\ pc' = IF idx = NumTargets THEN "done" ELSE "extract"
                /\ UNCHANGED raised
    /\ UNCHANGED <<source, span, text, once, twice, fuzzyVars, mainVars, checkVars>>

ExtractNext == ExtractAndSave

SpecExtract == ExtractInit /\ [][ExtractNext]_vars

\* the n-th name cannot be located: no assignment, or no bracket after it
Unlocatable(n) ==
    \/ ~HasAssignment(Targets[n].varname, source)
    \/ LET e == AfterAssignment(Targets[n].varname, source)
       IN  e = Len(source) \/ At(source, e) \notin Openers

\* the n-th call has been made
Called(n) == idx > n \/ (idx = n /\ pc = "crashed")

\* C1: a requested name without an assignment, or without a bracket after
\* it, is recorded as None, no error leaves the batch, and the names after
\* it are still extracted.
BatchIsolation ==
    \A n \in 1..NumTargets :
        (Called(n) /\ Unlocatable(n)) =>
            /\ raised = ""
            /\ results[n] = None
            /\ (pc # "extract" => \A m \in (n + 1)..NumTargets : results[m] # Unbound)

\* the repaired text of the n-th name, when it is located
Repaired(n) == js_to_json(js_var_to_json(Targets[n].varname, source).raw)

\* C4: when the repaired text of a located literal does not parse, the call
\* writes it to the debug file of the target, leaves the regular output file
\* as it was, binds None, and the batch goes on to the next name.
ParseFailureNonFatal ==
    [][(/\ pc = "extract"
        /\ js_var_to_json(Targets[idx].varname, source).kind = "span"
        /\ ~json_loads(Repaired(idx)).ok)
       => (/\ files'[DebugName(Targets[idx].filename)] =
                 [kind |-> "text", body |-> Repaired(idx)]
           /\ DebugName(Targets[idx].filename) = "_debug_" \o Targets[idx].filename
           /\ files'[Targets[idx].filename] = files[Targets[idx].filename]
           /\ results'[idx] = None
           /\ raised' = ""
           /\ idx' = idx + 1
           /\ pc' = IF idx < NumTargets THEN "extract" ELSE "done")]_vars

\* a literal that does not parse was followed by one that was written
ParseFailureThenSuccess ==
    /\ pc = "done"
    /\ \E n \in 1..(NumTargets - 1) :
          /\ results[n] = None
          /\ files[DebugName(Targets[n].filename)].kind = "text"
          /\ files[Targets[n].filename] = Absent
          /\ results[n + 1] \notin {None, Unbound}
          /\ files[Targets[n + 1].filename].body = results[n + 1]

\* ------------------------------------------------------------------------
\* Specification of one call of fuzzy_match
\* ------------------------------------------------------------------------
MaxCandidates == 2

FuzzyNames == {Wigan, Wigam, WiganComma, Selby, ElysAscii, AAndB, AAmpB}

Thresholds == {<<0, 1>>, <<1, 2>>, <<4, 5>>, <<1, 1>>}

FuzzyInit ==
    /\ pc = "call"
    /\ \E name \in FuzzyNames, threshold \in Thresholds, n \in 0..MaxCandidates :
          \E candidates \in SeqsOfLen(FuzzyNames, n) :
              fuzzyArgs = [name |-> name, candidates |-> candidates,
                           threshold |-> threshold]
    /\ fuzzyRet = Idle
    /\ source = Idle /\ span = Idle /\ text = Idle /\ once = Idle /\ twice = Idle
    /\ idx = Idle /\ results = Idle /\ files = Idle /\ raised = Idle
    /\ args = Idle /\ workbook = Idle /\ mp_info = Idle /\ constituencies = Idle
    /\ validation = Idle /\ output = Idle /\ outfile = Idle
    /\ departments = Idle /\ report = Idle

FuzzyMatch ==
    /\ pc = "call"
    /\ fuzzyRet' = fuzzy_match(fuzzyArgs.name, fuzzyArgs.candidates, fuzzyArgs.threshold)
    /\ pc' = "returned"
    /\ UNCHANGED <<fuzzyArgs, source, span, text, once, twice, extractVars, mainVars, checkVars>>

FuzzyNext == FuzzyMatch

SpecFuzzy == FuzzyInit /\ [][FuzzyNext]_vars

\* the score of the n-th candidate against the name
ScoreOf(n) == Ratio(Normalise(fuzzyArgs.name), Normalise(fuzzyArgs.candidates[n]))

\* the n-th candidate scores highest, and no earlier candidate scores as high
FirstBest(n) ==
    /\ \A m \in 1..Len(fuzzyArgs.candidates) : AtLeast(ScoreOf(n), ScoreOf(m))
    /\ \A m \in 1..(n - 1) : Greater(ScoreOf(n), ScoreOf(m))

\* C8: the best score is the highest score over the candidates; the match
\* is the first candidate with that score when it reaches the threshold,
\* and None otherwise.
FuzzyMatchResult ==
    (pc = "returned" /\ fuzzyArgs.candidates # <<>>) =>
        \E n \in 1..Len(fuzzyArgs.candidates) :
            /\ FirstBest(n)
            /\ SameScore(fuzzyRet.score, ScoreOf(n))
            /\ fuzzyRet.match = IF AtLeast(ScoreOf(n), fuzzyArgs.threshold)
                                THEN fuzzyArgs.candidates[n] ELSE None

\* ------------------------------------------------------------------------
\* Specification of main (process_demographics.py:395-443)
\* ------------------------------------------------------------------------
MaxPctRows == 2
MaxRows == 3
MaxRoster == 2

Unset == [kind |-> "unset"]

\* command lines: --excel PATH, --excel PATH --manual, --manual, and none
\* with or without data/sources/constituency-ethnicity.xlsx
ExcelArgs == {[excel |-> TRUE, manual |-> FALSE, found |-> FALSE],
              [excel |-> TRUE, manual |-> TRUE, found |-> FALSE]}

AutoExcelArgs == {[excel |-> FALSE, manual |-> FALSE, found |-> TRUE]}

ManualArgs == {[excel |-> FALSE, manual |-> TRUE, found |-> TRUE],
               [excel |-> FALSE, manual |-> FALSE, found |-> FALSE]}

FullHeaders ==
    << {"constituency"}, {"code"}, {"white", "%"}, {"asian", "%"}, {"black", "%"},
       {"mixed", "%"}, {"other", "%"}, {"other", "%", "ethnic"} >>

NoWhiteHeaders ==
    << {}, {"pcon24nm"}, {"asian", "%"}, {"black", "%"}, {"mixed", "%"}, {"other", "%"} >>

NoNameHeaders == << {"gss"}, {"white", "%"} >>

LinkHeaders == << {"pcon name"}, {"white", "%"} >>

\* the cells of a row under the given headers
RowCells(headers, full) ==
    [n \in 1..Len(headers) |->
        IF HeaderField(headers[n]) = "" THEN None ELSE full[HeaderField(headers[n])]]

NamePool == <<Wigan, Selby, Wycombe, ElysAscii>>

RowName(n) == NamePool[((n - 1) % Len(NamePool)) + 1]

WhiteCells == {None, Text, Num(6000)}

MinorityCells ==
    { <<Num(1004), Num(496), Num(300), Num(200)>>,
      <<Num(1000), None, Num(300), Num(200)>>,
      <<Text, Num(500), Num(300), Num(200)>> }

\* rows that differ in their percentage cells; a row may have a blank name
PctRow(n, named, white, minor) ==
    [name |-> IF named THEN Str(<<SP>> \o RowName(n)) ELSE Str(<<SP>>),
     gss_code |-> IF n % 2 = 1 THEN Str(<<"E", "1">>) ELSE None,
     white_pct |-> white,
     asian_pct |-> minor[1], black_pct |-> minor[2],
     mixed_pct |-> minor[3], other_pct |-> minor[4]]

PctRows == {PctRow(1, b, w, m) : b \in BOOLEAN, w \in WhiteCells, m \in MinorityCells}

LinkNames == {Wigan, ElysAscii, ElysSmart}

\* rows that differ in their names; the n-th row has white n * 10.0
LinkRow(n, name) ==
    [name |-> Str(name), gss_code |-> None, white_pct |-> Num(1000 * n),
     asian_pct |-> None, black_pct |-> None, mixed_pct |-> None, other_pct |-> None]

RosterKeys == <<"Carol", "Alice", "Bob", "Dave">>

ConChoices == {Missing, Str(<<>>), Str(Wigan), Str(Wigam), Str(ElysSmart), Str(ElysAscii)}

Rosters ==
    {[n \in 1..MaxRoster |-> [name |-> RosterKeys[n], con |-> c[n]]] :
        c \in SeqsOfLen(ConChoices, MaxRoster)}

FixedRoster == << [name |-> "Carol", con |-> Str(Wigan)] >>

MainInit ==
    /\ pc = "start"
    /\ \/ /\ args \in ExcelArgs \cup AutoExcelArgs
          /\ mp_info = FixedRoster
          /\ \E headers \in {FullHeaders, NoWhiteHeaders, NoNameHeaders}, k \in 0..MaxPctRows :
                \E choice \in SeqsOfLen(PctRows, k) :
                    workbook = [headers |-> headers,
                                rows |-> [n \in 1..k |->
                                    RowCells(headers,
                                        [choice[n] EXCEPT
                                            !.name = IF @ = Str(<<SP>>) THEN @
                                                     ELSE Str(<<SP>> \o RowName(n)),
                                            !.gss_code = IF n % 2 = 1 THEN Str(<<"E", "1">>)
                                                         ELSE None])]]
       \/ /\ args \in ExcelArgs
          /\ mp_info \in Rosters
          /\ \E k \in 0..MaxRows :
                \E names \in SeqsOfLen(LinkNames, k) :
                    workbook = [headers |-> LinkHeaders,
                                rows |-> [n \in 1..k |->
                                    RowCells(LinkHeaders, LinkRow(n, names[n]))]]
       \/ /\ args \in ManualArgs
          /\ mp_info \in Rosters
          /\ workbook = [headers |-> <<>>, rows |-> <<>>]
    /\ constituencies = [kind |-> "unset", items |-> <<>>]
    /\ validation = Unset /\ output = Unset /\ outfile = Unset
    /\ raised = ""
    /\ source = Idle /\ span = Idle /\ text = Idle /\ once = Idle /\ twice = Idle
    /\ idx = Idle /\ results = Idle /\ files = Idle
    /\ fuzzyArgs = Idle /\ fuzzyRet = Idle
    /\ departments = Idle /\ report = Idle

otherVars == <<source, span, text, once, twice, idx, results, files, fuzzyArgs, fuzzyRet,
               departments, report>>

\* lines 403-417: choose the provider and load
Load ==
    /\ pc = "start"
    /\ IF args.excel
       THEN /\ constituencies' = process_excel(workbook)
            /\ pc' = IF constituencies'.items = <<>> THEN "exit" ELSE "validate"
       ELSE IF args.manual
       THEN /\ constituencies' = load_manual_data
            /\ pc' = "validate"
       ELSE IF args.found
       THEN /\ constituencies' = process_excel(workbook)
            /\ pc' = "validate"
       ELSE /\ constituencies' = load_manual_data
            /\ pc' = "validate"
    /\ UNCHANGED <<args, workbook, mp_info, validation, output, outfile, raised, otherVars>>

\* line 420; the returned tuple is dropped
Validate ==
    /\ pc = "validate"
    /\ IF constituencies.kind = "None"
       THEN /\ raised' = "TypeError"
            /\ pc' = "crashed"
            /\ UNCHANGED validation
       ELSE /\ \E order \in Orders({constituencies.items[n].constituency_name[2] :
                                       n \in 1..Len(constituencies.items)}) :
                  validation' = validate_against_mp_info(constituencies.items, mp_info, order)
            /\ pc' = "build"
            /\ UNCHANGED raised
    /\ UNCHANGED <<args, workbook, mp_info, constituencies, output, outfile, otherVars>>

\* line 423
Build ==
    /\ pc = "build"
    /\ output' = build_output(constituencies.items, mp_info)
    /\ pc' = "save"
    /\ UNCHANGED <<args, workbook, mp_info, constituencies, validation, outfile, raised, otherVars>>

\* lines 426-428
Save ==
    /\ pc = "save"
    /\ outfile' = output
    /\ pc' = "stats"
    /\ UNCHANGED <<args, workbook, mp_info, constituencies, validation, output, raised, otherVars>>

\* lines 430-443: sum() fails on a None percentage, max() on no entries
Stats ==
    /\ pc = "stats"
    /\ LET cons == output.constituencies IN
       IF \E n \in 1..Len(cons) : cons[n][2].nonwhite_pct = None
       THEN raised' = "TypeError" /\ pc' = "crashed"
       ELSE IF cons = <<>>
       THEN raised' = "ValueError" /\ pc' = "crashed"
       ELSE raised' = raised /\ pc' = "done"
    /\ UNCHANGED <<args, workbook, mp_info, constituencies, validation, output, outfile, otherVars>>

MainNext == Load \/ Validate \/ Build \/ Save \/ Stats

SpecMain == MainInit /\ [][MainNext]_vars

\* ------------------------------------------------------------------------
\* Reference notions for the properties of main
\* ------------------------------------------------------------------------
Loaded == pc \notin {"start"} /\ constituencies.kind = "list"

Built == pc \in {"save", "stats", "done"} \/ (pc = "crashed" /\ output # Unset)

\* the names of the loaded records, in order
RecordNames == [n \in 1..Len(constituencies.items) |->
                   constituencies.items[n].constituency_name[2]]

\* what the non-white percentage of a record with these fields has to be
ExpectedNonwhite(white, minorities) ==
    IF white # None THEN Num(1000 - white[2])
    ELSE IF \A n \in 1..4 : minorities[n] # None
         THEN Num(minorities[1][2] + minorities[2][2] + minorities[3][2] + minorities[4][2])
         ELSE None

FieldsAgree(e) ==
    Get(e, "nonwhite_pct") =
        ExpectedNonwhite(Get(e, "white_pct"),
                         [n \in 1..4 |-> Get(e, MinorityFields[n])])

\* C6: whichever provider loaded the records, the non-white percentage of
\* every record, and of every entry of the document built from them, is
\* 100 minus its white percentage when that is known, else the sum of its
\* four minority percentages when all four are known, else absent
DerivedFieldConsistency ==
    /\ Loaded => \A n \in 1..Len(constituencies.items) : FieldsAgree(constituencies.items[n])
    /\ Built => \A k \in 1..Len(output.constituencies) : FieldsAgree(output.constituencies[k][2])

\* a workbook without a white column gave one row its sum and another none
DerivedFromMinorities ==
    /\ Built
    /\ ColOf(workbook.headers, "white_pct") = -1
    /\ \E k \in 1..Len(output.constituencies) :
          output.constituencies[k][2].nonwhite_pct = Num(200)
    /\ \E k \in 1..Len(output.constituencies) :
          output.constituencies[k][2].nonwhite_pct = None

Apostrophes == {SQ, LSQUO, RSQUO}

DoubleQuotes == {DQ, LDQUO, RDQUO}

\* the two names are equal once typographic quotes count as plain ones
SameModuloQuotes(a, b) ==
    /\ Len(a) = Len(b)
    /\ \A n \in 1..Len(a) :
          \/ a[n] = b[n]
          \/ {a[n], b[n]} \subseteq Apostrophes
          \/ {a[n], b[n]} \subseteq DoubleQuotes

\* the positions of the roster whose constituency is the given name
LinkedTo(name) ==
    {n \in 1..Len(mp_info) :
        /\ mp_info[n].con \notin {Missing, Str(<<>>)}
        /\ SameModuloQuotes(mp_info[n].con[2], name)}

\* C7: the ministers of an output entry are exactly the roster names whose
\* non-empty constituency equals the entry's name modulo typographic
\* quotes, in roster order; an entry with no such name has no list
MinisterLinkExactness ==
    Built =>
        \A k \in 1..Len(output.constituencies) :
            LET name == output.constituencies[k][1]
                m == output.constituencies[k][2].ministers
                S == LinkedTo(name)
            IN  IF S = {} THEN m = Missing
                ELSE /\ m # Missing
                     /\ Len(m) = Cardinality(S)
                     /\ \A n \in S : m[Cardinality({j \in S : j <= n})] = mp_info[n].name

\* an entry with two ministers, one linked through a typographic quote,
\* next to an entry without ministers
LinkedThroughQuote ==
    /\ Built
    /\ \E k \in 1..Len(output.constituencies) :
          /\ output.constituencies[k][1] = ElysAscii
          /\ output.constituencies[k][2].ministers = <<"Carol", "Alice">>
          /\ mp_info[1].con = Str(ElysSmart)
    /\ \E k \in 1..Len(output.constituencies) :
          output.constituencies[k][2].ministers = Missing

\* the roster constituencies validation paired with a record of another name
FuzzyPairs ==
    {u \in DOMAIN validation.fuzzy_matches :
        ~SameModuloQuotes(u, validation.fuzzy_matches[u].match)}

FuzzyLeavesOutputAlone ==
    /\ Built =>
          \A u \in FuzzyPairs :
              \A k \in 1..Len(output.constituencies), n \in 1..Len(mp_info) :
                  /\ output.constituencies[k][1] = validation.fuzzy_matches[u].match
                  /\ mp_info[n].con = Str(u)
                  => \/ output.constituencies[k][2].ministers = Missing
                     \/ \A j \in 1..Len(output.constituencies[k][2].ministers) :
                           output.constituencies[k][2].ministers[j] # mp_info[n].name
    /\ pc \in {"stats", "done"} => outfile = output

ValidateOnlyReports ==
    pc = "validate" => /\ constituencies' = constituencies
                       /\ mp_info' = mp_info
                       /\ output' = output
                       /\ outfile' = outfile

\* C9: validation's fuzzy matches are only reported: the validation step
\* changes neither the records nor the roster nor the document, a minister
\* whose constituency was fuzzy-matched to a record of another name is not
\* among that record's ministers, and the file written is the document built
FuzzyNeverAltersOutput == []FuzzyLeavesOutputAlone /\ [][ValidateOnlyReports]_vars

\* validation paired Wigam with Wigan and the Wigan entry has no ministers
FuzzyMatchUnlinked ==
    /\ pc = "done"
    /\ Wigam \in FuzzyPairs
    /\ validation.fuzzy_matches[Wigam].match = Wigan
    /\ \E k \in 1..Len(output.constituencies) :
          /\ output.constituencies[k][1] = Wigan
          /\ output.constituencies[k][2].ministers = Missing

FirstOf(name) == CHOOSE n \in 1..Len(RecordNames) :
                    RecordNames[n] = name /\ \A j \in 1..(n - 1) : RecordNames[j] # name

LastOf(name) == CHOOSE n \in 1..Len(RecordNames) :
                   RecordNames[n] = name /\ \A j \in (n + 1)..Len(RecordNames) : RecordNames[j] # name

\* C10: the keys of the output are the distinct record names in the order
\* of their first occurrence, and the entry of a name carries the fields of
\* the last record with that name
KeyOrderOverwriteWins ==
    Built =>
        LET out == output.constituencies IN
        /\ \A n \in 1..Len(RecordNames) : \E k \in 1..Len(out) : out[k][1] = RecordNames[n]
        /\ \A k \in 1..Len(out) : \E n \in 1..Len(RecordNames) : out[k][1] = RecordNames[n]
        /\ \A k1, k2 \in 1..Len(out) :
              k1 < k2 => out[k1][1] # out[k2][1] /\ FirstOf(out[k1][1]) < FirstOf(out[k2][1])
        /\ \A k \in 1..Len(out) :
              LET c == constituencies.items[LastOf(out[k][1])] IN
              /\ \A f \in {"white_pct", "asian_pct", "black_pct", "mixed_pct",
                           "other_pct", "nonwhite_pct"} : out[k][2][f] = Get(c, f)
              /\ out[k][2].gss_code = c.gss_code

\* a name occurs first and third: its entry stays first and has the third
\* record's percentage
NameOverwritten ==
    /\ Built
    /\ Len(RecordNames) = 3
    /\ RecordNames[1] = RecordNames[3] /\ RecordNames[1] # RecordNames[2]
    /\ Len(output.constituencies) = 2
    /\ output.constituencies[1][1] = RecordNames[1]
    /\ output.constituencies[1][2].white_pct = Num(300)

\* C11: when process_excel finds no name column (returns None), main either
\* loads the manual data instead or exits; validation and build_output are
\* never entered with the None result
SchemaErrorHandled ==
    constituencies.kind = "None" => pc = "exit"

\* ------------------------------------------------------------------------
\* Specification of the relationship check that ends extract_data.py
\* (extract_data.py:147-170).  The roster is MP_INFO in key order, an entry
\* being its name and its parlId; a department is its secretary's name and
\* the names of its mos and puss lists.
\* ------------------------------------------------------------------------
MaxDepts == 2
MaxCheckRoster == 2

\* lines 149-155: all_ministers
AllMinisters(depts) ==
    UNION {{depts[n].secretary}
             \cup {depts[n].mos[k] : k \in 1..Len(depts[n].mos)}
             \cup {depts[n].puss[k] : k \in 1..Len(depts[n].puss)} : n \in 1..Len(depts)}

\* lines 148-170: what the check prints; nothing when either document is falsy
RelationshipReport(roster, depts) ==
    IF roster # <<>> /\ depts # <<>>
    THEN LET all_ministers == AllMinisters(depts)
             mp_names == {roster[n].name : n \in 1..Len(roster)}
         IN  [printed |-> TRUE,
              missing_from_mp_info |-> all_ministers \ mp_names,
              ministers_with_parlid |-> Cardinality({n \in 1..Len(roster) : Truthy(roster[n].parlId)}),
              total |-> Len(roster),
              unique |-> Cardinality(all_ministers)]
    ELSE [printed |-> FALSE]

ParlIds == {Missing, Str(<<>>), Str(<<"4", "5">>)}

CheckRosters ==
    UNION {{[n \in 1..k |-> [name |-> RosterKeys[n], parlId |-> ids[n]]] :
               ids \in SeqsOfLen(ParlIds, k)} : k \in 0..MaxCheckRoster}

Depts ==
    {[secretary |-> sec, mos |-> mos, puss |-> puss] :
        sec \in {"Carol", "Eve"}, mos \in {<<>>, <<"Alice">>}, puss \in {<<>>, <<"Eve", "Bob">>}}

CheckInit ==
    /\ pc = "check"
    /\ mp_info \in CheckRosters
    /\ \E k \in 0..MaxDepts : departments \in SeqsOfLen(Depts, k)
    /\ report = [printed |-> FALSE]
    /\ raised = ""
    /\ source = Idle /\ span = Idle /\ text = Idle /\ once = Idle /\ twice = Idle
    /\ idx = Idle /\ results = Idle /\ files = Idle
    /\ fuzzyArgs = Idle /\ fuzzyRet = Idle
    /\ args = Idle /\ workbook = Idle /\ constituencies = Idle
    /\ validation = Idle /\ output = Idle /\ outfile = Idle

RelationshipCheck ==
    /\ pc = "check"
    /\ report' = RelationshipReport(mp_info, departments)
    /\ pc' = "end"
    /\ UNCHANGED <<mp_info, departments, raised>>
    /\ UNCHANGED <<source, span, text, once, twice, idx, results, files, fuzzyVars>>
    /\ UNCHANGED <<args, workbook, constituencies, validation, output, outfile>>

CheckNext == RelationshipCheck

SpecCheck == CheckInit /\ [][CheckNext]_vars

\* the names some role of some department refers to
Referenced ==
    {nm \in {"Carol", "Alice", "Bob", "Dave", "Eve"} :
        \E n \in 1..Len(departments) :
            \/ departments[n].secretary = nm
            \/ \E k \in 1..Len(departments[n].mos) : departments[n].mos[k] = nm
            \/ \E k \in 1..Len(departments[n].puss) : departments[n].puss[k] = nm}

ReportedInFull ==
    pc = "end" =>
        /\ raised = ""
        /\ report.printed
        /\ report.missing_from_mp_info =
              {nm \in Referenced : \A n \in 1..Len(mp_info) : mp_info[n].name # nm}
        /\ report.ministers_with_parlid =
              Cardinality({n \in 1..Len(mp_info) :
                              mp_info[n].parlId \notin {Missing, Str(<<>>)}})
        /\ report.total = Len(mp_info)

InputsUntouched == mp_info' = mp_info /\ departments' = departments

\* C12: for every roster and every list of departments the relationship
\* check reports as missing exactly the referenced names that are not
\* roster keys, and the number of roster entries with a non-empty parlId
\* out of all entries; it changes neither input and never ends the run
ReferentialIntegrityReport == []ReportedInFull /\ [][InputsUntouched]_vars

\* the same report, for a roster and departments that are both non-empty
ReportedWhenNonEmpty ==
    (mp_info # <<>> /\ departments # <<>>) => ReportedInFull

\* ------------------------------------------------------------------------
\* Specification of extract_data.py run again and again over the same
\* DATA_DIR, the source changing between runs
\* ------------------------------------------------------------------------
\* what the source of a run may hold for one variable name: a list, an
\* object, and a literal that does not parse once repaired
RunSnippets(v) ==
    { <<VAR, SP, v, SP, "=", SP, "[", "1", ",", NL, "]", ";", NL>>,
      <<VAR, SP, v, "=", "{", "a", ":", DQ, "}", DQ, ",", "}", ";", NL>>,
      <<VAR, SP, v, SP, "=", SP, "[", "a", "]", ";", NL>> }

RunSources ==
    {a \o b \o c : a \in RunSnippets(Targets[1].varname),
                   b \in RunSnippets(Targets[2].varname),
                   c \in RunSnippets(Targets[3].varname)}

RunsInit ==
    /\ pc = "extract"
    /\ idx = 1
    /\ source \in RunSources
    /\ results = [n \in 1..NumTargets |-> Unbound]
    /\ files = [p \in Paths |-> Absent]
    /\ raised = ""
    /\ span = Idle /\ text = Idle /\ once = Idle /\ twice = Idle
    /\ fuzzyArgs = Idle /\ fuzzyRet = Idle
    /\ args = Idle /\ workbook = Idle /\ mp_info = Idle /\ constituencies = Idle
    /\ validation = Idle /\ output = Idle /\ outfile = Idle
    /\ departments = Idle /\ report = Idle

\* the script is started again: the module-level names are fresh, the files
\* under DATA_DIR are those the runs before left
NextRun ==
    /\ pc = "done"
    /\ pc' = "extract"
    /\ idx' = 1
    /\ source' \in RunSources
    /\ results' = [n \in 1..NumTargets |-> Unbound]
    /\ UNCHANGED <<files, raised>>
    /\ UNCHANGED <<span, text, once, twice, fuzzyVars, mainVars, checkVars>>

RunsNext == ExtractAndSave \/ NextRun

SpecRuns == RunsInit /\ [][RunsNext]_vars

\* C13: when a run has ended, the output file of every requested name holds
\* the document that run extracted; a name the run extracted no document
\* for has no output file left over from a run before
LatestRunPersisted ==
    pc = "done" =>
        \A n \in 1..NumTargets :
            LET data == json_loads(Repaired(n)) IN
            files[Targets[n].filename] =
                IF data.ok THEN [kind |-> "json", body |-> data.val] ELSE Absent

\* the records came from process_excel and one of them lacks a percentage
DegradedRow ==
    /\ args.excel \/ (~args.manual /\ args.found)
    /\ Loaded
    /\ \E n \in 1..Len(constituencies.items), k \in 1..Len(PctFields) :
          Get(constituencies.items[n], PctFields[k]) = None

\* C14: a row with missing or non-numeric percentages gives a record with
\* null in those fields and stops nothing: the run validates, builds and
\* writes the document with every named row in it, and ends without an
\* unhandled exception
RowLevelIsolation ==
    DegradedRow =>
        /\ pc # "crashed" /\ raised = ""
        /\ pc \in {"stats", "done"} =>
              \A n \in 1..Len(RecordNames) : HasKey(outfile.constituencies, RecordNames[n])

\* the same, short of the statistics main prints after the file is written
RowsIsolatedUntilWritten ==
    DegradedRow =>
        /\ pc \in {"validate", "build", "save", "stats", "done", "crashed"}
        /\ pc = "crashed" => outfile # Unset
        /\ outfile # Unset =>
              \A n \in 1..Len(RecordNames) : HasKey(outfile.constituencies, RecordNames[n])

\* C15: in every document build_output returns, the coverage count of the
\* metadata is the number of entries of the constituencies mapping
CoverageConsistency ==
    Built => output.metadata.coverage = Len(output.constituencies)

\* the same, for records whose names are all different
CoverageOfDistinctNames ==
    (Built /\ \A n, m \in 1..Len(RecordNames) : RecordNames[n] = RecordNames[m] => n = m)
        => output.metadata.coverage = Len(output.constituencies)

\* C16: every span js_var_to_json returns starts at the opener and ends at
\* its closer, where the depth returns to zero; for a source that ends
\* before the depth returns to zero no span is returned
OnlyBalancedSpans ==
    (pc = "located" /\ span.kind = "span") =>
        /\ Closers(source, span.start) # {}
        /\ span.stop = TrueClose(source, span.start)
        /\ span.raw # <<>>
        /\ span.raw[1] \in Openers
        /\ span.raw[Len(span.raw)] = CloserOf(span.raw[1])

====
